---------------------------- MODULE Spec2Model ----------------------------
(***************************************************************************)
(* Model of src/app.py, the Streamlit page of the absenteeism predictor.   *)
(*                                                                         *)
(* Streamlit runs the whole script once per user event.  A script run is   *)
(* the operator Script; it reads and writes st.session_state (df,          *)
(* selected_employee), reads the widget values the browser holds (the      *)
(* file in the uploader, the search text, the bulk checkbox, the buttons   *)
(* clicked by this event) and writes files to datasets/.  One action per   *)
(* user event runs the script (Reset runs it twice: st.experimental_rerun).*)
(*                                                                         *)
(* Text (column names, CSV fields, the search value) is a sequence of      *)
(* one-character strings, so that str.lower(), the `in` substring test and *)
(* int() are computed and not assumed.                                     *)
(***************************************************************************)
EXTENDS Integers, Sequences, FiniteSets, TLC

VARIABLES
    df,                 \* st.session_state.df: None or a table
    selected_employee,  \* st.session_state.selected_employee: None or a table
    uploaded_file,      \* the file held by st.file_uploader: Nothing or a file id
    search_label,       \* label (identity) of the st.text_input last drawn:
                        \* the search column's name, <<>> when none is drawn
    search_value,       \* text held by that st.text_input
    bulk_checked,       \* value held by the st.checkbox
    shown,              \* widgets drawn by the last script run
    files,              \* names (timestamps) of the files in datasets/
    now,                \* wall clock, in seconds
    uploads,            \* number of upload events so far
    upload_second,      \* second of the latest upload event, -1 before any
    uploads_distinct,   \* no two upload events fell in the same second
    last_parsed,        \* table parsed at the most recent successful upload
    out                 \* what the last event's script run(s) did

vars == <<df, selected_employee, uploaded_file, search_label, search_value,
          bulk_checked, shown, files, now, uploads, upload_second,
          uploads_distinct, last_parsed, out>>

\* None as a value of st.session_state.df and selected_employee: a table
\* has at least one column, so the table without columns stands for it
None == [columns |-> <<>>, dtypes |-> <<>>, rows |-> <<>>]

\* no file, no exception, no view
Nothing == "nothing"

-----------------------------------------------------------------------------
(* Bounds of the model.                                                    *)

MaxTime == 1
MaxUploads == 2
MaxInt == 1000

-----------------------------------------------------------------------------
(* Text.                                                                   *)

UpperChars == <<"A","B","C","D","E","F","G","H","I","J","K","L","M",
                "N","O","P","Q","R","S","T","U","V","W","X","Y","Z">>
LowerChars == <<"a","b","c","d","e","f","g","h","i","j","k","l","m",
                "n","o","p","q","r","s","t","u","v","w","x","y","z">>
Digits == <<"0","1","2","3","4","5","6","7","8","9">>

\* str.lower() on a capital letter
LowerMap == [c \in {UpperChars[i] : i \in 1..26} |->
               LowerChars[CHOOSE i \in 1..26 : UpperChars[i] = c]]

\* str.lower() on one character
LowerChar(c) == IF c \in DOMAIN LowerMap THEN LowerMap[c] ELSE c

\* str.lower()
lower(t) == [i \in 1..Len(t) |-> LowerChar(t[i])]

\* sub in t
Contains(sub, t) ==
    \E i \in 1..(Len(t) - Len(sub) + 1) : SubSeq(t, i, i + Len(sub) - 1) = sub

IsDigit(c) == \E i \in 1..10 : Digits[i] = c
DigitVal(c) == (CHOOSE i \in 1..10 : Digits[i] = c) - 1

\* str.strip() of blanks, as int() does before it reads the literal
RECURSIVE LStrip(_)
LStrip(t) == IF t # <<>> /\ Head(t) = " " THEN LStrip(Tail(t)) ELSE t
RECURSIVE RStrip(_)
RStrip(t) ==
    IF t # <<>> /\ t[Len(t)] = " " THEN RStrip(SubSeq(t, 1, Len(t) - 1)) ELSE t
Strip(t) == RStrip(LStrip(t))

\* value of a digit string, base 10
RECURSIVE DigitsValue(_)
DigitsValue(t) ==
    IF t = <<>> THEN 0
    ELSE 10 * DigitsValue(SubSeq(t, 1, Len(t) - 1)) + DigitVal(t[Len(t)])

\* the digits of a literal with its underscores dropped
RECURSIVE DropUnderscores(_)
DropUnderscores(t) ==
    IF t = <<>> THEN <<>>
    ELSE IF Head(t) = "_" THEN DropUnderscores(Tail(t))
    ELSE <<Head(t)>> \o DropUnderscores(Tail(t))

\* digits, with single underscores allowed between digits
IsIntBody(t) ==
    /\ t # <<>>
    /\ \A i \in 1..Len(t) : IsDigit(t[i]) \/ t[i] = "_"
    /\ IsDigit(t[1]) /\ IsDigit(t[Len(t)])
    /\ \A i \in 1..(Len(t) - 1) : ~(t[i] = "_" /\ t[i + 1] = "_")

ValueError == [ok |-> FALSE, val |-> 0]

\* int(text): the number, or ValueError
int(t) ==
    LET s == Strip(t)
        signed == s # <<>> /\ Head(s) \in {"+", "-"}
        body == IF signed THEN Tail(s) ELSE s
    IN  IF IsIntBody(body)
        THEN [ok |-> TRUE,
              val |-> IF signed /\ Head(s) = "-"
                      THEN 0 - DigitsValue(DropUnderscores(body))
                      ELSE DigitsValue(DropUnderscores(body))]
        ELSE ValueError


-----------------------------------------------------------------------------
(* Cell values of a table.  k is the kind: "num" (the number m / 10^e, e   *)
(* the least possible), "bool" (m is 1 for True, 0 for False), "str" (the  *)
(* text s), "nan" (a missing value), or a value the classifier returned.   *)

Num(m, e) == [k |-> "num", m |-> m, e |-> e, s |-> <<>>]
Bool(b) == [k |-> "bool", m |-> IF b THEN 1 ELSE 0, e |-> 0, s |-> <<>>]
Str(t) == [k |-> "str", m |-> 0, e |-> 0, s |-> t]
NaN == [k |-> "nan", m |-> 0, e |-> 0, s |-> <<>>]

\* A cell the classifier filled: "label" is some label in {0, 1}, "percent"
\* some probability times 100.  No part of the script reads such a cell.
Classified(kind) == [k |-> kind, m |-> 0, e |-> 0, s |-> <<>>]

-----------------------------------------------------------------------------
(* pd.read_csv: an uploaded file is its lines, each line its fields; the   *)
(* first line is the header.  No file of the model has a line longer than  *)
(* its header.                                                             *)

IsAllDigits(t) == t # <<>> /\ \A i \in 1..Len(t) : IsDigit(t[i])
Unsigned(t) == IF t # <<>> /\ Head(t) \in {"+", "-"} THEN Tail(t) ELSE t
IsNegative(t) == t # <<>> /\ Head(t) = "-"

IsCsvInt(t) == IsAllDigits(Unsigned(t))

DotAt(t) == CHOOSE i \in 1..Len(t) : t[i] = "."

IsCsvFloat(t) ==
    LET u == Unsigned(t)
    IN  /\ Cardinality({i \in 1..Len(u) : u[i] = "."}) = 1
        /\ Len(u) > 1
        /\ \A i \in 1..Len(u) : IsDigit(u[i]) \/ u[i] = "."

TrueTexts == {<<"T","r","u","e">>, <<"T","R","U","E">>, <<"t","r","u","e">>}
FalseTexts == {<<"F","a","l","s","e">>, <<"F","A","L","S","E">>, <<"f","a","l","s","e">>}
IsCsvBool(t) == t \in TrueTexts \cup FalseTexts

\* a fraction's digits without its trailing zeros
RECURSIVE DropTrailingZeros(_)
DropTrailingZeros(t) ==
    IF t # <<>> /\ t[Len(t)] = "0"
    THEN DropTrailingZeros(SubSeq(t, 1, Len(t) - 1))
    ELSE t

\* the number a numeric field denotes
CsvNumber(t) ==
    LET u == Unsigned(t)
        whole == IF IsCsvInt(t) THEN u ELSE SubSeq(u, 1, DotAt(u) - 1)
        frac == IF IsCsvInt(t) THEN <<>>
                ELSE DropTrailingZeros(SubSeq(u, DotAt(u) + 1, Len(u)))
        mag == DigitsValue(whole \o frac)
    IN  Num(IF IsNegative(t) THEN 0 - mag ELSE mag, Len(frac))

\* field j of a line, missing fields read as empty
Field(line, j) == IF j <= Len(line) THEN line[j] ELSE <<>>

\* the dtype pandas infers for column j of the data lines
InferDtype(data, j) ==
    LET fields == {Field(data[i], j) : i \in 1..Len(data)}
        present == fields \ {<<>>}
    IN  IF data = <<>> THEN "object"
        ELSE IF <<>> \notin fields /\ \A t \in fields : IsCsvInt(t) THEN "int64"
        ELSE IF \A t \in present : IsCsvInt(t) \/ IsCsvFloat(t) THEN "float64"
        ELSE IF <<>> \notin fields /\ \A t \in fields : IsCsvBool(t) THEN "bool"
        ELSE "object"

\* the value of a field in a column of the given dtype
CellValue(t, dtype) ==
    IF t = <<>> THEN NaN
    ELSE IF dtype \in {"int64", "float64"} THEN CsvNumber(t)
    ELSE IF dtype = "bool" THEN Bool(t \in TrueTexts)
    ELSE Str(t)

\* pd.read_csv raises (EmptyDataError) on a file with no header line
ParseFails(file) == file = <<>>

read_csv(file) ==
    LET header == Head(file)
        data == Tail(file)
        dtypes == [j \in 1..Len(header) |-> InferDtype(data, j)]
    IN  [columns |-> header,
         dtypes |-> dtypes,
         rows |-> [i \in 1..Len(data) |->
                     [j \in 1..Len(header) |->
                        CellValue(Field(data[i], j), dtypes[j])]]]

\* df[name] = values: replaces the column in place, or appends it
ColumnIndex(d, name) ==
    IF \E j \in 1..Len(d.columns) : d.columns[j] = name
    THEN CHOOSE j \in 1..Len(d.columns) : d.columns[j] = name
    ELSE 0

SetColumn(d, name, dtype, value) ==
    LET j == ColumnIndex(d, name)
    IN  IF j = 0
        THEN [columns |-> Append(d.columns, name),
              dtypes |-> Append(d.dtypes, dtype),
              rows |-> [i \in 1..Len(d.rows) |-> Append(d.rows[i], value)]]
        ELSE [columns |-> d.columns,
              dtypes |-> [d.dtypes EXCEPT ![j] = dtype],
              rows |-> [i \in 1..Len(d.rows) |->
                          [d.rows[i] EXCEPT ![j] = value]]]

-----------------------------------------------------------------------------
(* The CSV files a user may upload.                                        *)

cEmployeeID == <<"E","m","p","l","o","y","e","e","_","I","D">>
cName == <<"N","a","m","e">>
cAge == <<"A","g","e">>
cValidFlag == <<"V","a","l","i","d","_","F","l","a","g">>
cEmployeeName == <<"E","m","p","l","o","y","e","e","_","N","a","m","e">>
cAbsenteeismDays == <<"A","b","s","e","n","t","e","e","i","s","m","_","D","a","y","s">>
cAbsenteeismRisk == <<"A","b","s","e","n","t","e","e","i","s","m","_","R","I","S","K">>
cPrediction == <<"P","r","e","d","i","c","t","i","o","n">>
cRiskProbability == <<"R","i","s","k"," ","P","r","o","b","a","b","i","l","i","t","y"," ","(","%",")">>

t101 == <<"1","0","1">>
t102 == <<"1","0","2">>
t999 == <<"9","9","9">>
t30 == <<"3","0">>
t41 == <<"4","1">>
t1 == <<"1">>
t3 == <<"3">>
t1p5 == <<"1",".","5">>
t2p0 == <<"2",".","0">>
tAnn == <<"A","n","n">>
tBob == <<"B","o","b">>

FileIds == {"staff", "flags", "days", "plain", "empty"}

FileBytes(f) ==
    CASE f = "staff" -> << <<cEmployeeID, cName, cAge>>,
                           <<t101, tAnn, t30>>,
                           <<t102, tBob, t41>>,
                           <<t102, tAnn, t30>> >>
      [] f = "flags" -> << <<cValidFlag, cEmployeeName>>,
                           <<t1p5, tAnn>>,
                           <<t2p0, tBob>> >>
      [] f = "days" -> << <<cName, cAbsenteeismDays>>,
                          <<tAnn, t3>>,
                          <<tBob, t1>> >>
      [] f = "plain" -> << <<cAge, cAbsenteeismRisk>>,
                           <<t30, t1>>,
                           <<t41, t3>> >>
      [] f = "empty" -> << >>

\* what the user may type in the search box
SearchTexts == {<<>>, t102, t999, t1p5, tAnn}

-----------------------------------------------------------------------------
(* The parts of the script.                                                *)

\* the table pd.read_csv makes of each file that parses
ParsedFile == [f \in {g \in FileIds : ~ParseFails(FileBytes(g))} |->
                 read_csv(FileBytes(f))]

\* ScanColumns as it would be without the two calls of lower()
RECURSIVE ScanColumnsCaseSensitive(_, _)
ScanColumnsCaseSensitive(columns, j) ==
    IF j > Len(columns) THEN 0
    ELSE IF \/ Contains(<<"i","d">>, columns[j])
            \/ Contains(<<"n","a","m","e">>, columns[j])
         THEN j
         ELSE ScanColumnsCaseSensitive(columns, j + 1)

\* for col in df.columns: if "id" in col.lower() or "name" in col.lower():
\* search_column = col; break.  The column's position, 0 for None.
RECURSIVE ScanColumns(_, _)
ScanColumns(columns, j) ==
    IF j > Len(columns) THEN 0
    ELSE IF \/ Contains(<<"i","d">>, lower(columns[j]))
            \/ Contains(<<"n","a","m","e">>, lower(columns[j]))
         THEN j
         ELSE ScanColumns(columns, j + 1)

DetectSearchColumn(columns) == ScanColumns(columns, 1)

ExcludedNames == {<<"e","m","p","l","o","y","e","e","_","i","d">>, <<"n","a","m","e">>, <<"a","b","s","e","n","t","e","e","i","s","m","_","r","i","s","k">>}

\* [col for col in df.columns if col.lower() not in [...]]
RECURSIVE FeatureCols(_)
FeatureCols(columns) ==
    IF columns = <<>> THEN <<>>
    ELSE (IF lower(Head(columns)) \notin ExcludedNames
          THEN <<Head(columns)>> ELSE <<>>) \o FeatureCols(Tail(columns))

\* CoerceSearchValue as it would be without the test of the dtype
CoerceSearchValueAlways(dtype, text) ==
    LET n == int(text)
    IN  [ok |-> n.ok, kind |-> "int", n |-> n.val, s |-> <<>>]

\* if df[search_column].dtype != object: search_value = int(search_value)
CoerceSearchValue(dtype, text) ==
    IF dtype # "object"
    THEN LET n == int(text)
         IN  [ok |-> n.ok, kind |-> "int", n |-> n.val, s |-> <<>>]
    ELSE [ok |-> TRUE, kind |-> "str", n |-> 0, s |-> text]

\* one cell of df[search_column] == search_value
CellEquals(cell, key) ==
    CASE cell.k = "nan" -> FALSE
      [] cell.k = "str" -> key.kind = "str" /\ cell.s = key.s
      [] cell.k = "num" -> key.kind = "int" /\ cell.e = 0 /\ cell.m = key.n
      [] cell.k = "bool" -> key.kind = "int" /\ cell.m = key.n
      [] OTHER -> FALSE

\* the positions, in order, of the rows df[df[search_column] == search_value] keeps
RECURSIVE MatchingRows(_, _, _, _)
MatchingRows(rows, c, key, i) ==
    IF i > Len(rows) THEN <<>>
    ELSE (IF CellEquals(rows[i][c], key) THEN <<i>> ELSE <<>>)
         \o MatchingRows(rows, c, key, i + 1)

\* employee_data: the table of the rows kept
TakeRows(d, idx) ==
    [columns |-> d.columns, dtypes |-> d.dtypes,
     rows |-> [n \in 1..Len(idx) |-> d.rows[idx[n]]]]

Call(site, fn, features) == [site |-> site, fn |-> fn, features |-> features]

\* The record a script run works on: the session state, datasets/, and what
\* the run has done so far.
StartRun(ss) ==
    [df |-> ss.df, selected_employee |-> ss.selected_employee,
     files |-> ss.files, wrote |-> {}, crashed |-> Nothing, rerun |-> FALSE,
     view |-> Nothing, columns |-> <<>>, search_column |-> 0,
     search_text |-> <<>>, lookup |-> "skipped", displayed |-> <<>>,
     risk |-> Nothing, calls |-> <<>>, warnings |-> {},
     reached |-> {}, shown |-> {"uploader"}, reset_ran |-> FALSE]

\* Each part below takes the run record of the part before it (r0) and is
\* evaluated on its value (r).

\* lines 34-46: save the bytes under the timestamp's name, then parse them
UploadStage(r0, w, t) ==
    LET Stage(r) ==
            IF w.uploaded_file = Nothing THEN r
            ELSE LET saved == [r EXCEPT !.files = @ \cup {t},
                                        !.wrote = @ \cup {t}]
                 IN  IF ParseFails(FileBytes(w.uploaded_file))
                     THEN [saved EXCEPT !.crashed = "EmptyDataError"]
                     ELSE [saved EXCEPT !.df = ParsedFile[w.uploaded_file]]
    IN  CHOOSE x \in {Stage(r) : r \in {r0}} : TRUE

\* lines 85-105: the Predict Absenteeism button and what a click does
PredictStage(r0, w, o) ==
    LET Stage(r) ==
            LET fc == FeatureCols(r.df.columns)
                c1 == Append(r.calls, Call("single", "predict", fc))
                c2 == Append(c1, Call("single", "predict_proba", fc))
            IN  IF ~w.predict_clicked THEN r
                ELSE CASE o.single = "predict_ValueError" ->
                            [r EXCEPT !.calls = c1,
                                      !.warnings = @ \cup {"invalid_id"}]
                       [] o.single = "predict_Error" ->
                            [r EXCEPT !.calls = c1, !.crashed = "Exception"]
                       [] o.single = "proba_ValueError" ->
                            [r EXCEPT !.calls = c2,
                                      !.warnings = @ \cup {"invalid_id"}]
                       [] o.single = "proba_Error" ->
                            [r EXCEPT !.calls = c2, !.crashed = "Exception"]
                       [] o.single = "ok" ->
                            [r EXCEPT !.calls = c2,
                                      !.risk = IF o.label = 1 THEN "high"
                                               ELSE "low",
                                      !.selected_employee =
                                          TakeRows(r.df, r.displayed)]
    IN  CHOOSE x \in {Stage(r) : r \in {r0}} : TRUE

\* lines 66-110: the search box, the lookup and the single prediction
LookupStage(r0, w, o) ==
    LET Stage(r) ==
            LET c == r.search_column
                text == IF w.search_label = r.df.columns[c]
                        THEN w.search_value ELSE <<>>
                drawn == [r EXCEPT !.shown = @ \cup {"search"},
                                   !.search_text = text]
                key == CoerceSearchValue(r.df.dtypes[c], text)
            IN  IF r.crashed # Nothing THEN r
                ELSE IF c = 0 THEN r
                ELSE IF text = <<>> THEN [drawn EXCEPT !.lookup = "empty"]
                ELSE IF ~key.ok
                     THEN [drawn EXCEPT !.lookup = "invalid",
                                        !.warnings = @ \cup {"invalid_id"}]
                ELSE \* employee_data = df[df[search_column] == search_value]
                     LET idx == CHOOSE x \in {MatchingRows(r.df.rows, c, key, 1)} : TRUE
                     IN  IF idx = <<>>
                         THEN [drawn EXCEPT !.lookup = "not_found",
                                            !.warnings = @ \cup {"not_found"}]
                         ELSE PredictStage(
                                  [drawn EXCEPT !.lookup = "found",
                                                !.displayed = idx,
                                                !.shown = @ \cup {"predict"}],
                                  w, o)
    IN  CHOOSE x \in {Stage(r) : r \in {r0}} : TRUE

\* lines 112-122: the Absenteeism Distribution chart
TrendsStage(r0) ==
    LET Stage(r) ==
            IF r.crashed # Nothing THEN r
            ELSE IF \E j \in 1..Len(r.df.columns) :
                        r.df.columns[j] = cAbsenteeismDays
                 \* df["Absenteeism_Days", "Past Absences"]: no such column
                 THEN [r EXCEPT !.reached = @ \cup {"trends"},
                                !.crashed = "KeyError"]
                 ELSE [r EXCEPT !.reached = @ \cup {"trends", "pyplot"},
                                !.warnings = @ \cup {"missing_column"}]
    IN  CHOOSE x \in {Stage(r) : r \in {r0}} : TRUE

\* lines 124-133: the Predict for All Employees checkbox.  df is
\* st.session_state.df itself, so the two assignments change the session's table.
BulkStage(r0, w, o) ==
    LET Stage(r) ==
            LET fc == FeatureCols(r.df.columns)
                drawn == [r EXCEPT !.shown = @ \cup {"bulk"},
                                   !.reached = @ \cup {"bulk"}]
                c1 == Append(r.calls, Call("bulk", "predict", fc))
                c2 == Append(c1, Call("bulk", "predict_proba", fc))
                d1 == SetColumn(r.df, cPrediction, "int64", Classified("label"))
                d2 == SetColumn(d1, cRiskProbability, "float64",
                                Classified("percent"))
            IN  IF r.crashed # Nothing THEN r
                ELSE IF ~w.bulk_checked THEN drawn
                ELSE CASE o.bulk = "predict_Error" ->
                            [drawn EXCEPT !.calls = c1, !.crashed = "Exception"]
                       [] o.bulk = "proba_Error" ->
                            [drawn EXCEPT !.calls = c2, !.df = d1,
                                          !.crashed = "Exception"]
                       [] o.bulk = "ok" ->
                            [drawn EXCEPT !.calls = c2, !.df = d2,
                                          !.shown = @ \cup {"download"}]
    IN  CHOOSE x \in {Stage(r) : r \in {r0}} : TRUE

\* ResetHandler as it would be without line 138
ResetHandlerDatasetOnly(r) ==
    [r EXCEPT !.df = None]

\* lines 137-138: the two assignments of the Reset button's handler
ResetHandler(r) ==
    [r EXCEPT !.df = None, !.selected_employee = None]

\* lines 135-139: the Reset button
ResetStage(r0, w) ==
    LET Stage(r) ==
            IF r.crashed # Nothing THEN r
            ELSE LET drawn == [r EXCEPT !.shown = @ \cup {"reset"},
                                        !.reached = @ \cup {"reset"}]
                 IN  IF w.reset_clicked
                     THEN [ResetHandler(drawn) EXCEPT !.rerun = TRUE,
                                                      !.reset_ran = TRUE]
                     ELSE drawn
    IN  CHOOSE x \in {Stage(r) : r \in {r0}} : TRUE

\* lines 49-133: the no-dataset warning, or the dataset's page
PageStage(r0, w, o) ==
    LET Stage(r) ==
            IF r.crashed # Nothing THEN r
            ELSE IF r.df = None
                 THEN [r EXCEPT !.view = "no_dataset",
                                !.warnings = @ \cup {"no_dataset"}]
                 ELSE BulkStage(
                          TrendsStage(
                              LookupStage(
                                  [r EXCEPT !.view = "dataset",
                                            !.columns = r.df.columns,
                                            !.search_column =
                                                DetectSearchColumn(r.df.columns)],
                                  w, o)),
                          w, o)
    IN  CHOOSE x \in {Stage(r) : r \in {r0}} : TRUE

\* one run of the script, top to bottom
Script(ss, w, t, o) ==
    ResetStage(PageStage(UploadStage(StartRun(ss), w, t), w, o), w)

-----------------------------------------------------------------------------
(* User events.  Each runs the script with the widget values the browser   *)
(* holds; a click makes its button TRUE for that one run.                  *)

Widgets(file, label, text, bulk, predict_clicked, reset_clicked) ==
    [uploaded_file |-> file, search_label |-> label, search_value |-> text,
     bulk_checked |-> bulk, predict_clicked |-> predict_clicked,
     reset_clicked |-> reset_clicked]

\* What the classifier may do when called: answer, or raise.  single and bulk
\* say where the single and the bulk prediction fail, if they do; label is
\* the label the single prediction gets.
SingleOutcomes == {"ok", "predict_ValueError", "predict_Error",
                   "proba_ValueError", "proba_Error"}
BulkOutcomes == {"ok", "predict_Error", "proba_Error"}

Oracles(w) ==
    [single : IF w.predict_clicked THEN SingleOutcomes ELSE {"ok"},
     bulk : IF w.bulk_checked THEN BulkOutcomes ELSE {"ok"},
     label : IF w.predict_clicked THEN {0, 1} ELSE {0}]

Session == [df |-> df, selected_employee |-> selected_employee, files |-> files]

\* the widget values a run leaves: a widget the run drew keeps its value; one
\* it did not draw loses it, unless the run ended in an exception and this
\* Streamlit keeps widget state then (keep)
LabelAfter(r, w, keep) ==
    IF "search" \in r.shown THEN r.df.columns[r.search_column]
    ELSE IF keep THEN w.search_label ELSE <<>>
TextAfter(r, w, keep) ==
    IF "search" \in r.shown THEN r.search_text
    ELSE IF keep THEN w.search_value ELSE <<>>
BulkAfter(r, w, keep) ==
    IF "bulk" \in r.shown THEN w.bulk_checked
    ELSE IF keep THEN w.bulk_checked ELSE FALSE

\* st.experimental_rerun(): the script runs again at once with the same
\* widget values and no button clicked
Rerun(r1, w, t2, o2) ==
    LET r2 == Script([df |-> r1.df, selected_employee |-> r1.selected_employee,
                      files |-> r1.files],
                     [w EXCEPT !.predict_clicked = FALSE, !.reset_clicked = FALSE],
                     t2, o2)
    IN  [r2 EXCEPT !.calls = r1.calls \o @, !.wrote = r1.wrote \cup @,
                   !.reset_ran = TRUE]

\* the state after the event's run r
Finish(event, r, w, keep) ==
    /\ df' = r.df
    /\ selected_employee' = r.selected_employee
    /\ files' = r.files
    /\ uploaded_file' = w.uploaded_file
    /\ search_label' = LabelAfter(r, w, keep)
    /\ search_value' = TextAfter(r, w, keep)
    /\ bulk_checked' = BulkAfter(r, w, keep)
    /\ shown' = r.shown
    /\ now' = now
    /\ out' = [event |-> event, view |-> r.view, crashed |-> r.crashed,
               columns |-> r.columns, search_column |-> r.search_column,
               search_text |-> r.search_text, lookup |-> r.lookup,
               displayed |-> r.displayed, risk |-> r.risk, calls |-> r.calls,
               warnings |-> r.warnings, reached |-> r.reached,
               wrote |-> r.wrote, reset_ran |-> r.reset_ran]

\* an event other than Reset: one run of the script
RunOnce(event, w) ==
    \E o \in Oracles(w) :
        \E r \in {Script(Session, w, now, o)} :
            \E keep \in (IF r.crashed # Nothing THEN BOOLEAN ELSE {FALSE}) :
                Finish(event, r, w, keep)

NoUpload ==
    UNCHANGED <<uploads, upload_second, uploads_distinct, last_parsed>>

\* the user puts a file into the uploader
UploadFile ==
    /\ uploads < MaxUploads
    /\ \E f \in FileIds :
        /\ RunOnce("upload", Widgets(f, search_label, search_value,
                                     bulk_checked, FALSE, FALSE))
        /\ last_parsed' = IF ParseFails(FileBytes(f)) THEN last_parsed
                          ELSE ParsedFile[f]
    /\ uploads' = uploads + 1
    /\ upload_second' = now
    /\ uploads_distinct' = (uploads_distinct /\ now # upload_second)

\* the user takes the file out of the uploader
RemoveFile ==
    /\ uploaded_file # Nothing
    /\ RunOnce("remove", Widgets(Nothing, search_label, search_value,
                                 bulk_checked, FALSE, FALSE))
    /\ NoUpload

\* the user changes the text of the search box
TypeSearch ==
    /\ "search" \in shown
    /\ \E text \in SearchTexts \ {search_value} :
        RunOnce("search", Widgets(uploaded_file, search_label, text,
                                  bulk_checked, FALSE, FALSE))
    /\ NoUpload

\* the user clicks Predict Absenteeism
ClickPredict ==
    /\ "predict" \in shown
    /\ RunOnce("predict", Widgets(uploaded_file, search_label, search_value,
                                  bulk_checked, TRUE, FALSE))
    /\ NoUpload

\* the user ticks or unticks Predict for All Employees
ToggleBulk ==
    /\ "bulk" \in shown
    /\ RunOnce("bulk", Widgets(uploaded_file, search_label, search_value,
                               ~bulk_checked, FALSE, FALSE))
    /\ NoUpload

\* the user clicks Reset: the run that sees the click, and, when it gets to
\* the button, the run st.experimental_rerun() starts
ClickReset ==
    /\ "reset" \in shown
    /\ LET w == Widgets(uploaded_file, search_label, search_value,
                        bulk_checked, FALSE, TRUE)
       IN  \E o1 \in Oracles(w) :
             \E r1 \in {Script(Session, w, now, o1)} :
                 IF r1.rerun
                 THEN \E o2 \in Oracles(w) :
                        \E r2 \in {Rerun(r1, w, now, o2)} :
                            \E keep \in (IF r2.crashed # Nothing
                                         THEN BOOLEAN ELSE {FALSE}) :
                                Finish("reset", r2, w, keep)
                 ELSE \E keep \in BOOLEAN : Finish("reset", r1, w, keep)
    /\ NoUpload

\* a second passes
Tick ==
    /\ now < MaxTime
    /\ now' = now + 1
    /\ UNCHANGED <<df, selected_employee, uploaded_file, search_label,
                   search_value, bulk_checked, shown, files, uploads,
                   upload_second, uploads_distinct, last_parsed, out>>

\* the page as the session's first run draws it
Init ==
    LET r == Script([df |-> None, selected_employee |-> None, files |-> {}],
                    Widgets(Nothing, <<>>, <<>>, FALSE, FALSE, FALSE), 0,
                    [single |-> "ok", bulk |-> "ok", label |-> 0])
    IN  /\ df = r.df
        /\ selected_employee = r.selected_employee
        /\ files = r.files
        /\ uploaded_file = Nothing
        /\ search_label = <<>>
        /\ search_value = <<>>
        /\ bulk_checked = FALSE
        /\ shown = r.shown
        /\ now = 0
        /\ uploads = 0
        /\ upload_second = -1
        /\ uploads_distinct = TRUE
        /\ last_parsed = None
        /\ out = [event |-> "open", view |-> r.view, crashed |-> r.crashed,
                  columns |-> r.columns, search_column |-> r.search_column,
                  search_text |-> r.search_text, lookup |-> r.lookup,
                  displayed |-> r.displayed, risk |-> r.risk, calls |-> r.calls,
                  warnings |-> r.warnings, reached |-> r.reached,
                  wrote |-> r.wrote, reset_ran |-> r.reset_ran]

Next ==
    \/ UploadFile
    \/ RemoveFile
    \/ TypeSearch
    \/ ClickPredict
    \/ ToggleBulk
    \/ ClickReset

\* The session with every event in the same second.  now and files are read
\* by no part of the script but the file name of the upload's copy.
Spec == Init /\ [][Next]_vars

NextClock ==
    \/ Next
    \/ Tick

\* The session with the clock running.
SpecClock == Init /\ [][NextClock]_vars

-----------------------------------------------------------------------------
(* Properties.                                                             *)

\* the decimal digits of a natural number
RECURSIVE NatText(_)
NatText(n) ==
    IF n < 10 THEN <<Digits[n + 1]>>
    ELSE NatText(n \div 10) \o <<Digits[(n % 10) + 1]>>

\* the decimal literal of an integer
IntText(n) == IF n < 0 THEN <<"-">> \o NatText(0 - n) ELSE NatText(n)

\* the last e digits of a natural number, zeros in front
RECURSIVE FracText(_, _)
FracText(n, e) ==
    IF e = 0 THEN <<>>
    ELSE FracText(n \div 10, e - 1) \o <<Digits[(n % 10) + 1]>>

RECURSIVE Pow10(_)
Pow10(e) == IF e = 0 THEN 1 ELSE 10 * Pow10(e - 1)

\* str(v) of a cell of a column of the given dtype, as the table shows it
CellText(v, dtype) ==
    CASE v.k = "str" -> v.s
      [] v.k = "bool" -> IF v.m = 1 THEN <<"T","r","u","e">> ELSE <<"F","a","l","s","e">>
      [] v.k = "num" /\ dtype = "int64" -> IntText(v.m)
      [] v.k = "num" /\ v.e = 0 -> IntText(v.m) \o <<".", "0">>
      [] v.k = "num" ->
            LET mag == IF v.m < 0 THEN 0 - v.m ELSE v.m
            IN  (IF v.m < 0 THEN <<"-">> ELSE <<>>)
                \o NatText(mag \div Pow10(v.e)) \o <<".">> \o FracText(mag, v.e)
      [] OTHER -> <<>>

\* the elements of a sequence
Range(q) == {q[n] : n \in 1..Len(q)}

\* a sequence of increasing numbers that lists exactly the set S
Lists(q, S) ==
    /\ Range(q) = S
    /\ \A n \in 1..(Len(q) - 1) : q[n] < q[n + 1]

\* the last run drew the dataset's page and its search box held a text
LookedUp == out.view = "dataset" /\ out.search_column # 0 /\ out.search_text # <<>>

\* C1: after a click on Reset, whatever came before, the session state is the
\* initial one (no dataset, no selected employee) and the page drawn is the
\* no-dataset view.
C1_ResetRestoresInitialState ==
    out.event = "reset" =>
        /\ df = None
        /\ selected_employee = None
        /\ out.view = "no_dataset"

\* the columns of a table that the exclusion rule keeps, in the table's order
ExpectedFeatures(columns) ==
    SelectSeq(columns, LAMBDA c : \A x \in ExcludedNames : lower(c) # x)

\* C2: every classifier call of the last event, single or bulk, got exactly
\* the columns of the table parsed from the most recent successful upload
\* less employee_id, name and absenteeism_risk (case-insensitive), in order.
C2_FeaturesFromLastUpload ==
    \A i \in 1..Len(out.calls) :
        out.calls[i].features = ExpectedFeatures(last_parsed.columns)

\* the rows of the session's table whose search-column cell is the value v
RowsEqual(v) ==
    {i \in 1..Len(df.rows) : df.rows[i][out.search_column] = v}

\* C3 as stated: whenever the search box holds the text of a value v of the
\* identifier column, the lookup displays exactly the rows whose identifier
\* is v.
C3_LookupFindsEveryValue ==
    LookedUp =>
        \A i \in 1..Len(df.rows) :
            LET v == df.rows[i][out.search_column]
            IN  (/\ v.k # "nan"
                 /\ out.search_text =
                        CellText(v, df.dtypes[out.search_column]))
                => /\ out.lookup = "found"
                   /\ Lists(out.displayed, RowsEqual(v))

\* C3 as amended: on a textual identifier column the lookup displays exactly
\* the rows whose identifier is the text typed; on any other identifier
\* column, when the text typed is the decimal literal of an integer n, exactly
\* the rows whose identifier is the number n (True being 1, False 0); zero
\* rows come with the not-found warning.
C3_LookupFindsTextAndIntegers ==
    LookedUp =>
        LET c == out.search_column
            textual == df.dtypes[c] = "object"
            rowsText == {i \in 1..Len(df.rows) :
                            df.rows[i][c] = Str(out.search_text)}
            rowsInt(n) == {i \in 1..Len(df.rows) :
                              \/ df.rows[i][c] = Num(n, 0)
                              \/ df.rows[i][c] = Bool(n = 1) /\ n \in {0, 1}}
            shown_as(S) ==
                /\ Lists(out.displayed, S)
                /\ out.lookup = IF S = {} THEN "not_found" ELSE "found"
                /\ S = {} => "not_found" \in out.warnings
        IN  /\ textual => shown_as(rowsText)
            /\ ~textual =>
                 \A n \in (0 - MaxInt)..MaxInt :
                     out.search_text = IntText(n) => shown_as(rowsInt(n))

\* C3's case: the search for 102 in the staff table shows rows 2 and 3
C3_Witness ==
    /\ LookedUp
    /\ out.columns[out.search_column] = cEmployeeID
    /\ out.search_text = t102
    /\ out.lookup = "found"
    /\ out.displayed = <<2, 3>>

\* a column name that, lowercased, has "id" or "name" in it
Qualifies(name) ==
    \/ \E i \in 1..(Len(name) - 1) :
            LowerChar(name[i]) = "i" /\ LowerChar(name[i + 1]) = "d"
    \/ \E i \in 1..(Len(name) - 3) :
            /\ LowerChar(name[i]) = "n" /\ LowerChar(name[i + 1]) = "a"
            /\ LowerChar(name[i + 2]) = "m" /\ LowerChar(name[i + 3]) = "e"

\* C4: the identifier column the page uses is the first column, in the
\* table's order, whose lowercased name contains "id" or "name" (Valid_Flag
\* before Employee_Name), and none exactly when no column qualifies; with
\* none the lookup is skipped and the run still gets to the trends section
\* (and to the bulk checkbox, the trends section letting it through).
C4_FirstQualifyingColumn ==
    out.view = "dataset" =>
        LET cols == out.columns
            Q == {j \in 1..Len(cols) : Qualifies(cols[j])}
        IN  /\ out.search_column \in Q \cup {0}
            /\ out.search_column = 0 <=> Q = {}
            /\ \A j \in Q : out.search_column <= j
            /\ cols = <<cValidFlag, cEmployeeName>> => out.search_column = 1
            /\ out.search_column = 0 =>
                 /\ out.lookup = "skipped"
                 /\ "search" \notin shown
                 /\ "trends" \in out.reached
                 /\ (\A j \in 1..Len(cols) : cols[j] # cAbsenteeismDays)
                        => "bulk" \in out.reached

\* C4's case: Valid_Flag is chosen before Employee_Name
C4_Witness ==
    /\ out.view = "dataset"
    /\ out.columns = <<cValidFlag, cEmployeeName>>
    /\ out.search_column = 1
    /\ "search" \in shown

\* C5: the classifier is called only in the run of the click on Predict
\* Absenteeism (single prediction) or of the tick of Predict for All
\* Employees (bulk prediction); the run of any other event calls nothing.
C5_ClassifierOnlyOnConfirmation ==
    \A i \in 1..Len(out.calls) :
        /\ out.calls[i].site = "single" => out.event = "predict"
        /\ out.calls[i].site = "bulk" => out.event = "bulk" /\ bulk_checked

\* C6: with uploads at distinct seconds, datasets/ holds as many files as
\* there were uploads, and the run of an event that is no upload writes none.
C6_OneFilePerUpload ==
    /\ uploads_distinct => Cardinality(files) = uploads
    /\ out.event # "upload" => out.wrote = {}

\* C7: a run whose lookup fails (the text is no integer for a non-textual
\* column, or no row matches) warns, calls no classifier and leaves df and
\* selected_employee as they were.
C7_FailedLookupChangesNothing ==
    [][out'.lookup \in {"invalid", "not_found"} =>
          /\ out'.warnings \cap {"invalid_id", "not_found"} # {}
          /\ out'.calls = <<>>
          /\ df' = df
          /\ selected_employee' = selected_employee]_vars

\* C8: a run that draws the dataset's page, whatever the columns, draws the
\* distribution chart or its warning and goes on to the bulk checkbox and
\* the Reset button (runs in which the classifier is called set aside).
C8_RunReachesBulkAndReset ==
    (out.view = "dataset" /\ out.calls = <<>>) =>
        /\ out.crashed = Nothing
        /\ {"trends", "pyplot", "bulk", "reset"} \subseteq out.reached

\* C9: df changes only by an upload (to the table parsed) or by Reset (to
\* None); the runs of a search, a single prediction and a bulk prediction
\* leave it as it was, columns included.
C9_DatasetChangesOnlyByUploadOrReset ==
    [][/\ df' # df => \/ out'.event = "upload" /\ df' = last_parsed'
                      \/ out'.event = "reset" /\ df' = None
       /\ out'.event \in {"search", "predict", "bulk"} => df' = df]_vars

\* C10: selected_employee is set only while df is set; it is set only by the
\* run of a click on Predict Absenteeism that drew the dataset's page, found
\* rows and had both classifier calls answer; and the step that clears df is
\* Reset's, which clears selected_employee with it.
C10_SelectionNeedsDataset ==
    /\ [](selected_employee # None => df # None)
    /\ [][/\ (selected_employee' # selected_employee /\ selected_employee' # None)
               => /\ out'.event = "predict"
                  /\ out'.view = "dataset"
                  /\ out'.lookup = "found"
                  /\ out'.risk # Nothing
                  /\ Len(out'.calls) >= 2
                  /\ out'.calls[1] = Call("single", "predict", out'.calls[1].features)
                  /\ out'.calls[2] = Call("single", "predict_proba", out'.calls[1].features)
                  /\ df' # None
                  /\ selected_employee'.rows # <<>>
          /\ (df # None /\ df' = None)
               => /\ out'.event = "reset"
                  /\ out'.reset_ran
                  /\ selected_employee' = None
          /\ (selected_employee # None /\ selected_employee' = None)
               => out'.event = "reset" /\ out'.reset_ran]_vars

\* C10's case: a single prediction has recorded the rows it was made for
C10_Witness ==
    /\ out.event = "predict"
    /\ out.risk # Nothing
    /\ df # None
    /\ selected_employee # None
    /\ selected_employee.rows # <<>>

=============================================================================
